---------------------------- MODULE Spec2Model ----------------------------
(***************************************************************************)
(* Model of scripts/analyze_excel_format.py: analyze_excel_file opens a    *)
(* workbook, loads every sheet as a table, prints a profile of every       *)
(* column, then the sheet-level "Additional Analysis", and finally closes  *)
(* the workbook.                                                           *)
(*                                                                         *)
(* A cell is a record [t, s]: t is the runtime kind of the parsed cell     *)
(* ("null", "str", "int") and s its string form as a sequence of           *)
(* one-character strings, so that the regular expressions, the comma and   *)
(* quote removal, strip() and the numeric parse are computed on            *)
(* characters.  Standard output is kept for the pass of the sheet loop     *)
(* under way: the column listing, one block of lines per analysed column,  *)
(* and the additional-analysis lines.  The table and the lists of a pass   *)
(* are dead once the pass is over and are reset with its output.           *)
(***************************************************************************)
EXTENDS Integers, Sequences, FiniteSets, TLC

\* ------------------------------------------------------------------ bounds

MaxSheets == 2
MaxRows == 2
MaxCols == 2
MaxLen == 4
MaxSampleLen == 6

\* --------------------------------------------------------------- characters

Digit == {"0", "1", "2", "3", "4", "5", "6", "7", "8", "9"}

Letter ==
    {"a", "b", "c", "d", "e", "f", "g", "h", "i", "j", "k", "l", "m",
     "n", "o", "p", "q", "r", "s", "t", "u", "v", "w", "x", "y", "z",
     "A", "B", "C", "D", "E", "F", "G", "H", "I", "J", "K", "L", "M",
     "N", "O", "P", "Q", "R", "S", "T", "U", "V", "W", "X", "Y", "Z"}

\* \w of the re module
WordChar == Digit \cup Letter \cup {"_"}

\* \s of the re module, and what str.strip() removes
Whitespace == {" ", "\t", "\n", "\r", "\f"}

\* a text cell (Python str) and an integer cell (Python int) with string form chars
Text(chars) == [t |-> "str", s |-> chars]

Number(chars) == [t |-> "int", s |-> chars]

Null == [t |-> "null", s |-> <<>>]

\* ------------------------------------------------- regular-expression parts

\* position i of s holds a character of class C
At(s, i, C) == i >= 1 /\ i <= Len(s) /\ s[i] \in C

\* the n characters of s from position i on are all of class C
Run(s, i, n, C) == i >= 1 /\ i + n - 1 <= Len(s) /\ \A k \in i..(i + n - 1) : s[k] \in C

\* r'\d{1,2}[/-]\d{1,2}[/-]\d{2,4}'
DateLike(s) ==
    \E i \in 1..Len(s), a \in 1..2 :
        /\ Run(s, i, a, Digit)
        /\ At(s, i + a, {"/", "-"})
        /\ \E b \in 1..2 :
            /\ Run(s, i + a + 1, b, Digit)
            /\ At(s, i + a + 1 + b, {"/", "-"})
            /\ \E c \in 2..4 : Run(s, i + a + b + 2, c, Digit)

\* r'[\d,]+\.?\d*'
NumberWithCommas(s) ==
    \E i \in 1..Len(s) :
        /\ At(s, i, Digit \cup {","})
        /\ \E n \in 1..Len(s) :
            /\ Run(s, i, n, Digit \cup {","})
            /\ \E d \in 0..1 :
                /\ (d = 1 => At(s, i + n, {"."}))
                /\ \E m \in 0..Len(s) : Run(s, i + n + d, m, Digit)

\* r'^"[\d,.]+"$'  ($ also matches before a final newline)
NumberInQuotes(s) ==
    \E e \in {Len(s), Len(s) - 1} :
        /\ e >= 3
        /\ (e = Len(s) - 1 => s[Len(s)] = "\n")
        /\ s[1] = "\""
        /\ s[e] = "\""
        /\ Run(s, 2, e - 2, Digit \cup {",", "."})

\* the dollar sign left unescaped, r'$[\d,]+\.?\d*': an end-of-string anchor
\* followed by a digit or comma
Currency_unescaped(s) ==
    \E i \in {Len(s), Len(s) + 1} :
        /\ (i = Len(s) => At(s, i, {"\n"}))
        /\ \E n \in 1..(Len(s) + 1) : Run(s, i, n, Digit \cup {","})

\* r'\$[\d,]+\.?\d*'
Currency(s) ==
    \E i \in 1..Len(s) :
        /\ At(s, i, {"$"})
        /\ \E n \in 1..Len(s) :
            /\ Run(s, i + 1, n, Digit \cup {","})
            /\ \E d \in 0..1 :
                /\ (d = 1 => At(s, i + 1 + n, {"."}))
                /\ \E m \in 0..Len(s) : Run(s, i + 1 + n + d, m, Digit)

\* r'\d+\.?\d*%'
Percentage(s) ==
    \E i \in 1..Len(s) :
        /\ At(s, i, Digit)
        /\ \E n \in 1..Len(s) :
            /\ Run(s, i, n, Digit)
            /\ \E d \in 0..1 :
                /\ (d = 1 => At(s, i + n, {"."}))
                /\ \E m \in 0..Len(s) :
                    /\ Run(s, i + n + d, m, Digit)
                    /\ At(s, i + n + d + m, {"%"})

\* r'[^\w\s\-\.]'
SpecialChars(s) ==
    \E i \in 1..Len(s) : s[i] \notin (WordChar \cup Whitespace \cup {"-", "."})

\* the keys of the patterns dict, in insertion order
patterns ==
    <<"Date-like", "Number with commas", "Number in quotes",
      "Currency", "Percentage", "Special chars">>

\* Series.str.contains(pattern) on one string: re.search with the pattern of that key
str_contains(pattern_name, s) ==
    CASE pattern_name = "Date-like" -> DateLike(s)
      [] pattern_name = "Number with commas" -> NumberWithCommas(s)
      [] pattern_name = "Number in quotes" -> NumberInQuotes(s)
      [] pattern_name = "Currency" -> Currency(s)
      [] pattern_name = "Percentage" -> Percentage(s)
      [] pattern_name = "Special chars" -> SpecialChars(s)

\* ----------------------------------------------------------- string methods

RECURSIVE str_replace(_, _)
\* Series.str.replace(old, '') on one string, old a single character
str_replace(s, old) ==
    IF s = <<>> THEN <<>>
    ELSE IF Head(s) = old THEN str_replace(Tail(s), old)
    ELSE <<Head(s)>> \o str_replace(Tail(s), old)

RECURSIVE lstrip(_)
lstrip(s) ==
    IF s /= <<>> /\ Head(s) \in Whitespace THEN lstrip(Tail(s)) ELSE s

RECURSIVE rstrip(_)
rstrip(s) ==
    IF s /= <<>> /\ s[Len(s)] \in Whitespace THEN rstrip(SubSeq(s, 1, Len(s) - 1)) ELSE s

\* strip() mistaken for rstrip()
str_rstrip(s) == rstrip(s)

\* Series.str.strip() on one string
str_strip(s) == rstrip(lstrip(s))

\* pd.to_numeric(..., errors='coerce').notna() on one string: surrounding
\* whitespace is skipped, then [sign] digits [. digits] [e [sign] digits]
\* with at least one digit in the mantissa; anything else is coerced to NaN
to_numeric_notna(s) ==
    LET t == str_strip(s)
        \* [e [sign] digits] from position p to the end of t
        exponent(p) ==
            \/ p = Len(t) + 1
            \/ /\ At(t, p, {"e", "E"})
               /\ \E es \in 0..1 :
                   /\ (es = 1 => At(t, p + 1, {"+", "-"}))
                   /\ p + es + 1 <= Len(t)
                   /\ Run(t, p + es + 1, Len(t) - p - es, Digit)
    IN  \E sg \in 0..1 :
            /\ (sg = 1 => At(t, 1, {"+", "-"}))
            /\ \E n \in 0..Len(t) :
                /\ Run(t, sg + 1, n, Digit)
                /\ \E d \in 0..1 :
                    /\ (d = 1 => At(t, sg + n + 1, {"."}))
                    /\ \E m \in 0..Len(t) :
                        /\ n + m >= 1
                        /\ Run(t, sg + n + d + 1, m, Digit)
                        /\ exponent(sg + n + d + m + 1)

\* ------------------------------------------------------------ Series methods

Min(a, b) == IF a < b THEN a ELSE b

notnull(v) == v.t /= "null"

\* Series.dropna()
dropna(column) == SelectSeq(column, notnull)

\* count() mistaken for len(): every cell counted
count_as_len(column) == Len(column)

\* Series.count(): the non-null cells
count(column) == Len(dropna(column))

\* Series.isnull().sum()
isnull_sum(column) ==
    LET isnull(v) == v.t = "null" IN Len(SelectSeq(column, isnull))

\* all() mistaken for any()
isnull_any(column) == \E i \in 1..Len(column) : column[i].t = "null"

\* Series.isnull().all()
isnull_all(column) == \A i \in 1..Len(column) : column[i].t = "null"

\* Series.dtype as read_excel infers it: text anywhere (or no row at all) gives
\* object, integers with a missing cell (or only missing cells) float64
dtype(column) ==
    IF Len(column) = 0 THEN "object"
    ELSE IF \E i \in 1..Len(column) : column[i].t = "str" THEN "object"
    ELSE IF \E i \in 1..Len(column) : column[i].t = "null" THEN "float64"
    ELSE "int64"

RECURSIVE unique_by_last(_)
\* the distinct values in order of last appearance
unique_by_last(values) ==
    IF values = <<>> THEN <<>>
    ELSE IF \E i \in 2..Len(values) : values[i] = Head(values)
    THEN unique_by_last(Tail(values))
    ELSE <<Head(values)>> \o unique_by_last(Tail(values))

RECURSIVE unique(_)
\* Series.unique(): the distinct values in order of first appearance
unique(values) ==
    IF values = <<>> THEN <<>>
    ELSE LET init == unique(SubSeq(values, 1, Len(values) - 1))
             last == values[Len(values)]
         IN  IF \E i \in 1..Len(init) : init[i] = last THEN init ELSE Append(init, last)

\* Series.astype(str) on one value
astype_str(v) == v.s

\* Series.head(n)
head(values, n) == SubSeq(values, 1, Min(n, Len(values)))

\* f"{val}" of a value taken out of a column of that dtype
format_value(dt, v) == IF dt = "float64" THEN v.s \o <<".", "0">> ELSE v.s

\* type(val).__name__ of a value taken out of a column of that dtype
type_name(dt, v) == IF dt = "object" THEN v.t ELSE dt

RECURSIVE concat(_)
\* the lines of several print loops, one after another
concat(blocks) ==
    IF blocks = <<>> THEN <<>> ELSE Head(blocks) \o concat(Tail(blocks))

\* ------------------------------------------------- detailed column analysis

\* the four lines every column gets
summary_lines(col, column) ==
    << <<"Column", col>>,
       <<"Non-null count", count(column), Len(column)>>,
       <<"Null count", isnull_sum(column)>>,
       <<"Data type (pandas)", dtype(column)>> >>

\* min(5, len(unique_values))
sample_size(unique_values) == Min(5, Len(unique_values))

\* the unique-value count and the sample values
unique_lines(column) ==
    LET non_null_values == dropna(column)
        unique_values == unique(non_null_values)
        shown == SubSeq(unique_values, 1, sample_size(unique_values))
        dt == dtype(column)
    IN  << <<"Unique values", Len(unique_values)>>,
           <<"Sample values", sample_size(unique_values)>> >>
        \o [i \in 1..Len(shown) |->
               <<"Sample", format_value(dt, shown[i]), type_name(dt, shown[i])>>]

\* non_null_values[non_null_values.astype(str).str.contains(pattern)]
matching(pattern_name, non_null_values) ==
    LET hit(v) == str_contains(pattern_name, astype_str(v))
    IN  SelectSeq(non_null_values, hit)

\* .tail(3) of the matching values
examples_tail(pattern_name, non_null_values) ==
    LET hits == matching(pattern_name, non_null_values)
    IN  SubSeq(hits, Len(hits) - Min(3, Len(hits)) + 1, Len(hits))

\* .head(3) of the matching values
examples(pattern_name, non_null_values) == head(matching(pattern_name, non_null_values), 3)

\* one pass of the loop over patterns.items()
pattern_block(pattern_name, non_null_values) ==
    LET matches == IF non_null_values = <<>> THEN 0
                   ELSE Len(matching(pattern_name, non_null_values))
        shown == IF matches > 0 THEN examples(pattern_name, non_null_values) ELSE <<>>
    IN  IF matches > 0
        THEN << <<"Contains", pattern_name, matches>> >>
             \o [i \in 1..Len(shown) |-> <<"Example", astype_str(shown[i])>>]
        ELSE <<>>

\* the loop over patterns.items(), in the dict's order
pattern_lines(column) ==
    LET non_null_values == dropna(column)
    IN  concat([k \in 1..Len(patterns) |-> pattern_block(patterns[k], non_null_values)])

\* the dollar sign removed as well as the commas and the quotes
stripped_dollar(v) == str_replace(str_replace(str_replace(astype_str(v), ","), "\""), "$")

\* astype(str).str.replace(',', '').str.replace('"', '') on one value
stripped(v) == str_replace(str_replace(astype_str(v), ","), "\"")

\* numeric_convertible.notna().sum()
convertible_count(non_null_values) ==
    LET convertible(v) == to_numeric_notna(stripped(v))
    IN  Len(SelectSeq(non_null_values, convertible))

\* the check for numeric values stored as strings
numeric_lines(column) ==
    LET non_null_values == dropna(column)
        n == convertible_count(non_null_values)
    IN  IF n > 0
        THEN << <<"Numeric values stored as text", n, Len(non_null_values)>> >>
        ELSE <<>>

\* with_spaces.sum()
with_spaces_sum(non_null_values) ==
    LET with_spaces(v) == str_strip(astype_str(v)) /= astype_str(v)
    IN  Len(SelectSeq(non_null_values, with_spaces))

\* the check for leading/trailing spaces
spaces_lines(column) ==
    LET n == with_spaces_sum(dropna(column))
    IN  IF n > 0 THEN << <<"Values with leading/trailing spaces", n>> >> ELSE <<>>

\* everything one pass of "for col in df.columns" prints
column_lines(col, column) ==
    LET some == Len(dropna(column)) > 0
        object == dtype(column) = "object"
    IN  summary_lines(col, column)
        \o (IF some
            THEN unique_lines(column)
                 \o (IF object THEN pattern_lines(column) ELSE <<>>)
                 \o (IF object THEN numeric_lines(column) ELSE <<>>)
            ELSE <<>>)
        \o (IF object /\ some THEN spaces_lines(column) ELSE <<>>)

\* ------------------------------------------------------------------- tables

\* header cells of the sheets: a text header and a numeric one
HeaderCells == {Text(<<"A", "m", "o", "u", "n", "t">>), Number(<<"2", "0", "2", "4">>)}

\* cells of the sheets of a whole run, and of a short column with missing cells
CoreCells == {Null, Number(<<"7">>), Text(<<"a", "b", "c">>)}

\* cells of a text column
TextCells ==
    {Null,
     Number(<<"7">>),
     Text(<<"1", "0", "0">>),
     Text(<<"a", "b", "c">>),
     Text(<<" ", "5">>),
     Text(<<"5">>),
     Text(<<"$", "1", ",", "2", "3", "4", ".", "5", "6">>),
     Text(<<"5", "%">>),
     Text(<<"1", "/", "2", "/", "2", "4">>),
     Text(<<"\"", "1", ",", "5", "\"">>)}

\* cells of a column with many distinct values and no missing cell
SampleCells ==
    {Number(<<"1">>), Number(<<"2">>), Number(<<"3">>),
     Text(<<"a">>), Text(<<"b">>), Text(<<"1">>)}

\* the one header of a single-column sheet
AmountHeader == {Text(<<"A", "m", "o", "u", "n", "t">>)}

DigitChar(n) == <<"0", "1", "2", "3", "4", "5", "6", "7", "8", "9">>[n + 1]

\* the header as read_excel(header=0) labels it: the k-th repeat of a label X
\* becomes the text "X.k", so the labels of a loaded table are distinct
dedup_names(header) ==
    [i \in 1..Len(header) |->
        LET cur_count == Cardinality({j \in 1..(i - 1) : header[j] = header[i]})
        IN  IF cur_count > 0
            THEN Text(header[i].s \o <<".", DigitChar(cur_count)>>)
            ELSE header[i]]

\* pd.read_excel(file_path, sheet_name=sheet_name, header=0) of a sheet with
\* that header row and those parsed cells below it, column by column
read_excel(header, data, rows) ==
    [columns |-> dedup_names(header), data |-> data, rows |-> rows]

\* the positions df[col] selects: one gives a Series, several a DataFrame
selected(frame, col) == {i \in 1..Len(frame.columns) : frame.columns[i] = col}

\* bool(re.match(r'^\d', str(col)))
starts_with_number(col) == At(col.s, 1, Digit)

\* the "Column Names" listing
listing_lines(frame) ==
    << <<"Shape", frame.rows, Len(frame.columns)>> >>
    \o [i \in 1..Len(frame.columns) |->
           <<"Name", i, frame.columns[i], starts_with_number(frame.columns[i])>>]

\* [col for col in df.columns if df[col].isnull().all()]
empty_cols_of(frame) ==
    LET RECURSIVE pick(_)
        pick(i) ==
            IF i > Len(frame.columns) THEN <<>>
            ELSE (IF isnull_all(frame.data[i]) THEN <<frame.columns[i]>> ELSE <<>>)
                 \o pick(i + 1)
    IN  pick(1)

\* [col for col in df.columns if list(df.columns).count(col) > 1]
duplicate_cols_of(frame) ==
    LET RECURSIVE pick(_)
        pick(i) ==
            IF i > Len(frame.columns) THEN <<>>
            ELSE (IF Cardinality(selected(frame, frame.columns[i])) > 1
                  THEN <<frame.columns[i]>> ELSE <<>>)
                 \o pick(i + 1)
    IN  pick(1)

\* ', '.join(names) raises TypeError unless every item is a str
joinable(names) == \A i \in 1..Len(names) : names[i].t = "str"

\* -------------------------------------------------------------------- state

VARIABLES
    pc,        \* where analyze_excel_file is: start, sheets, columns, preview, done, failed
    wb,        \* the workbook handle: unopened, open, closed
    nsheets,   \* len(wb.sheetnames)
    sheet,     \* position in wb.sheetnames of the sheet of the current pass
    df,        \* the table of the current sheet
    col,       \* position in df.columns of the next column to analyse
    listing,   \* printed for the current sheet: shape and column names
    detail,    \* printed for the current sheet: one block of lines per column
    extra,     \* printed for the current sheet: the additional analysis
    empty_cols,      \* the list of that name, once assigned
    duplicate_cols,  \* the list of that name, once assigned
    header_row,      \* the header row of the current sheet as the file holds it
    finished,  \* number of sheets whose pass of the sheet loop ran to its end
    reads,     \* the sheets read_excel was called for, in call order
    closes,    \* number of wb.close() calls
    error      \* the exception that ended the run, or "none"

vars ==
    <<pc, wb, nsheets, sheet, df, col, listing, detail, extra, empty_cols, duplicate_cols,
      header_row, finished, reads, closes, error>>

NoTable == [columns |-> <<>>, data |-> <<>>, rows |-> 0]

Init ==
    /\ pc = "start"
    /\ wb = "unopened"
    /\ nsheets = 0
    /\ sheet = 0
    /\ df = NoTable
    /\ col = 0
    /\ listing = <<>>
    /\ detail = <<>>
    /\ extra = <<>>
    /\ empty_cols = <<>>
    /\ duplicate_cols = <<>>
    /\ header_row = <<>>
    /\ finished = 0
    /\ reads = <<>>
    /\ closes = 0
    /\ error = "none"

\* the exception caught and logged, the run carrying on from where it was
raise_caught(exception) ==
    /\ pc' = pc
    /\ error' = exception

\* an uncaught exception: nothing after the raising statement runs
raise(exception) ==
    /\ pc' = "failed"
    /\ error' = exception

\* wb = openpyxl.load_workbook(...): fails, or gives a workbook of some sheets
load_workbook(sheet_counts) ==
    /\ pc = "start"
    /\ \E ok \in BOOLEAN, n \in sheet_counts :
        IF ok
        THEN /\ wb' = "open"
             /\ nsheets' = n
             /\ sheet' = 1
             /\ pc' = "sheets"
             /\ UNCHANGED error
        ELSE /\ raise("load_workbook")
             /\ UNCHANGED <<wb, nsheets, sheet>>
    /\ UNCHANGED <<df, col, listing, detail, extra, empty_cols, duplicate_cols, header_row,
                   finished, reads, closes>>

\* the head of one pass of "for sheet_name in wb.sheetnames": read the sheet
\* (which fails, or gives the table of a sheet of up to max_cols columns and
\* max_rows rows) and list its columns
load_sheet(headers, cells, max_cols, max_rows) ==
    /\ pc = "sheets"
    /\ sheet <= nsheets
    /\ reads' = Append(reads, sheet)
    /\ \/ /\ raise("read_excel")
          /\ UNCHANGED <<header_row, df, listing, detail, extra, col>>
       \/ \E c \in 0..max_cols, r \in 0..max_rows :
          \E header \in [1..c -> headers], data \in [1..c -> [1..r -> cells]] :
             /\ header_row' = header
             /\ df' = read_excel(header, data, r)
             /\ listing' = listing_lines(df')
             /\ detail' = <<>>
             /\ extra' = <<>>
             /\ col' = 1
             /\ pc' = "columns"
             /\ UNCHANGED error
    /\ UNCHANGED <<wb, nsheets, sheet, empty_cols, duplicate_cols, finished, closes>>

\* one pass of "for col in df.columns"; df[col].dtype does not exist when
\* df[col] is a DataFrame
analyze_column ==
    /\ pc = "columns"
    /\ col <= Len(df.columns)
    /\ IF Cardinality(selected(df, df.columns[col])) > 1
       THEN /\ raise("AttributeError")
            /\ detail' = Append(detail, << <<"Column", df.columns[col]>> >>)
            /\ UNCHANGED col
       ELSE /\ detail' = Append(detail, column_lines(df.columns[col], df.data[col]))
            /\ col' = col + 1
            /\ UNCHANGED <<pc, error>>
    /\ UNCHANGED <<wb, nsheets, sheet, df, listing, extra, empty_cols, duplicate_cols,
                   header_row, finished, reads, closes>>

\* once the column loop is over: the empty columns and the duplicate column
\* names
additional_analysis ==
    /\ pc = "columns"
    /\ col > Len(df.columns)
    /\ empty_cols' = empty_cols_of(df)
    /\ LET empty_line ==
               IF empty_cols_of(df) /= <<>>
               THEN << <<"Empty columns", empty_cols_of(df)>> >>
               ELSE <<>>
           duplicate_line ==
               IF duplicate_cols_of(df) /= <<>>
               THEN << <<"Duplicate column names",
                         {duplicate_cols_of(df)[i] : i \in 1..Len(duplicate_cols_of(df))}>> >>
               ELSE <<>>
       IN  IF ~joinable(empty_cols_of(df))
           THEN /\ raise("TypeError")
                /\ UNCHANGED <<extra, duplicate_cols>>
           ELSE IF ~joinable(duplicate_cols_of(df))
           THEN /\ raise("TypeError")
                /\ duplicate_cols' = duplicate_cols_of(df)
                /\ extra' = empty_line
           ELSE /\ duplicate_cols' = duplicate_cols_of(df)
                /\ extra' = empty_line \o duplicate_line
                /\ pc' = "preview"
                /\ UNCHANGED error
    /\ UNCHANGED <<wb, nsheets, sheet, df, col, listing, detail, header_row, finished, reads,
                   closes>>

\* the end of the pass: print(df.head(3)), then on to the next sheet name
data_preview ==
    /\ pc = "preview"
    /\ finished' = finished + 1
    /\ sheet' = sheet + 1
    /\ pc' = "sheets"
    /\ df' = NoTable
    /\ col' = 0
    /\ listing' = <<>>
    /\ detail' = <<>>
    /\ extra' = <<>>
    /\ empty_cols' = <<>>
    /\ duplicate_cols' = <<>>
    /\ header_row' = <<>>
    /\ UNCHANGED <<wb, nsheets, reads, closes, error>>

\* wb.close() indented into the sheet loop: run at the end of every pass
close_in_loop ==
    /\ pc = "sheets"
    /\ closes < finished
    /\ wb' = "closed"
    /\ closes' = closes + 1
    /\ pc' = IF sheet > nsheets /\ closes + 1 = finished THEN "done" ELSE pc
    /\ UNCHANGED <<nsheets, sheet, df, col, listing, detail, extra, empty_cols, duplicate_cols,
                   header_row, finished, reads, error>>

\* wb.close(), after the sheet loop
close ==
    /\ pc = "sheets"
    /\ sheet > nsheets
    /\ wb' = "closed"
    /\ closes' = closes + 1
    /\ pc' = "done"
    /\ UNCHANGED <<nsheets, sheet, df, col, listing, detail, extra, empty_cols, duplicate_cols,
                   header_row, finished, reads, error>>

\* a run over a workbook of MaxSheets sheets
Next ==
    \/ load_workbook({MaxSheets})
    \/ load_sheet(HeaderCells, CoreCells, MaxCols, MaxRows)
    \/ analyze_column
    \/ additional_analysis
    \/ data_preview
    \/ close

Spec == Init /\ [][Next]_vars

\* a run over a workbook of one sheet with one column of text cells
NextProfile ==
    \/ load_workbook({1})
    \/ load_sheet(AmountHeader, TextCells, 1, MaxLen)
    \/ analyze_column
    \/ additional_analysis
    \/ data_preview
    \/ close

SpecProfile == Init /\ [][NextProfile]_vars

\* a run over a workbook of one sheet with one column: a long one without
\* missing cells, or a short one with missing cells
NextSample ==
    \/ load_workbook({1})
    \/ load_sheet(AmountHeader, SampleCells, 1, MaxSampleLen)
    \/ load_sheet(AmountHeader, CoreCells, 1, MaxLen)
    \/ analyze_column
    \/ additional_analysis
    \/ data_preview
    \/ close

SpecSample == Init /\ [][NextSample]_vars

\* ------------------------------------------------------ reading the output

\* the lines of a block that carry that tag
tagged(block, tag) ==
    LET has(line) == line[1] = tag IN SelectSeq(block, has)

\* the tags of the lines of a block
tags(block) == {block[i][1] : i \in 1..Len(block)}

\* the number a block reports on its line of that tag, 0 when it has no such line
reported(block, tag) ==
    IF tagged(block, tag) = <<>> THEN 0 ELSE tagged(block, tag)[1][2]

\* every cell of the column is missing
AllNull(column) == \A i \in 1..Len(column) : column[i] = Null

\* the positions of the non-missing cells of a column
Present(column) == {i \in 1..Len(column) : column[i] /= Null}

\* the column holds text and at least one value: the case the text checks run in
TextColumn(column) ==
    /\ Present(column) /= {}
    /\ \E i \in 1..Len(column) : column[i].t = "str"

\* the additional analysis of the current sheet has been printed
SheetDone == pc = "preview"

SummaryTags == {"Column", "Non-null count", "Null count", "Data type (pandas)"}

\* ------------------------------------------------------------------- claims

\* C1: for every analysed column of every sheet, the reported non-null count
\* plus the reported null count equals the number of rows N of the sheet, which
\* is the denominator printed next to the non-null count.
C1_CountsAddUp ==
    \A c \in 1..Len(detail) :
        /\ tagged(detail[c], "Non-null count") /= <<>>
        /\ tagged(detail[c], "Null count") /= <<>>
        /\ tagged(detail[c], "Non-null count")[1][3] = df.rows
        /\ reported(detail[c], "Non-null count") + reported(detail[c], "Null count") = df.rows

\* a column mixing missing and non-missing cells has been analysed
C1_Witness ==
    \E c \in 1..Len(detail) :
        /\ reported(detail[c], "Non-null count") > 0
        /\ reported(detail[c], "Null count") > 0

Duplicated(header) ==
    {header[i] : i \in {j \in 1..Len(header) : \E k \in 1..Len(header) : k /= j /\ header[k] = header[j]}}

\* C3: when the additional analysis of a sheet whose header row repeats a
\* column name has been printed, it holds the duplicate-column-names report,
\* which names each repeated name (once: it is a set) and no name that occurs
\* once.
C3_DuplicatesReported ==
    (SheetDone /\ Duplicated(header_row) /= {}) =>
        /\ tagged(extra, "Duplicate column names") /= <<>>
        /\ tagged(extra, "Duplicate column names")[1][2] = Duplicated(header_row)

\* C7: a failure to open the workbook or to load a sheet ends the run with
\* that failure; sheets are read one after another in workbook order, each at
\* most once (no retry), so that when sheet k fails to load no later sheet was
\* read and the k - 1 sheets before it were each analysed to the end.
C7_LoadFailureAborts ==
    /\ \A i \in 1..Len(reads) : reads[i] = i
    /\ error = "load_workbook" =>
           pc = "failed" /\ reads = <<>> /\ finished = 0 /\ wb = "unopened"
    /\ error = "read_excel" =>
           /\ pc = "failed"
           /\ Len(reads) >= 1
           /\ sheet = Len(reads)
           /\ finished = Len(reads) - 1
    /\ pc \in {"sheets", "done"} => finished = Len(reads)
    /\ pc \in {"columns", "preview"} => finished = Len(reads) - 1 /\ sheet = Len(reads)

\* the second sheet failed to load after the first was analysed
C7_Witness ==
    /\ error = "read_excel"
    /\ reads = <<1, 2>>
    /\ finished = 1

\* C8: the workbook handle is opened once, at the start, and closed exactly
\* once, after the pass of the last sheet has run to its end; a run ended by a
\* failure while a sheet is loaded or analysed never closes it.
C8_HandleRelease ==
    /\ closes <= 1
    /\ closes = 1 <=> pc = "done"
    /\ wb = "closed" <=> pc = "done"
    /\ pc = "done" => finished = nsheets /\ sheet = nsheets + 1 /\ error = "none"
    /\ wb = "unopened" <=> (pc = "start" \/ error = "load_workbook")
    /\ (pc = "failed" /\ error /= "load_workbook") => wb = "open" /\ closes = 0

\* a run failed while its second sheet was analysed, the handle still open
C8_Witness ==
    /\ pc = "failed"
    /\ error = "TypeError"
    /\ finished = 1
    /\ wb = "open"

\* the string without its commas and double quotes
Removed(s) ==
    LET keep(ch) == ch \notin {",", "\""} IN SelectSeq(s, keep)

\* the positions of the non-missing cells whose string form, commas and double
\* quotes removed, parses as a number
Convertible(column) == {i \in Present(column) : to_numeric_notna(Removed(column[i].s))}

\* C4: for a text column with a value, the numeric-coercion count is the number
\* of non-missing cells (with multiplicity) whose string form parses as a number
\* once every comma and double quote is removed, printed next to the number of
\* non-missing cells and only when it is not zero; a cell that does not parse is
\* left out and the analysis of the column runs to its end without a failure.
C4_NumericCoercion ==
    /\ \A c \in 1..Len(detail) :
           TextColumn(df.data[c]) =>
               LET lines == tagged(detail[c], "Numeric values stored as text")
               IN  /\ Len(lines) = (IF Convertible(df.data[c]) = {} THEN 0 ELSE 1)
                   /\ reported(detail[c], "Numeric values stored as text")
                          = Cardinality(Convertible(df.data[c]))
                   /\ lines /= <<>> => lines[1][3] = Cardinality(Present(df.data[c]))
    /\ pc = "columns" => Len(detail) = col - 1
    /\ error \in {"none", "load_workbook", "read_excel", "TypeError"}
    /\ error = "TypeError" => Len(detail) = Len(df.columns)

\* a column holding "100" and "abc" has been analysed with a count of 1
C4_Witness ==
    /\ Len(detail) = 1
    /\ \E i \in 1..df.rows : df.data[1][i] = Text(<<"1", "0", "0">>)
    /\ \E i \in 1..df.rows : df.data[1][i] = Text(<<"a", "b", "c">>)
    /\ reported(detail[1], "Numeric values stored as text") = 1

\* the text "$1,234.56"
Dollars == Text(<<"$", "1", ",", "2", "3", "4", ".", "5", "6">>)

\* C5: in a text column every cell "$1,234.56" is counted under the Currency
\* pattern (so the Currency count is at least 1) and none is counted by the
\* numeric-coercion check.
C5_CurrencyNotNumeric ==
    \A c \in 1..Len(detail) :
        LET held == {i \in 1..df.rows : df.data[c][i] = Dollars}
            currency == {p \in 1..Len(detail[c]) :
                            detail[c][p][1] = "Contains" /\ detail[c][p][2] = "Currency"}
        IN  held /= {} =>
                /\ \E p \in currency : detail[c][p][3] >= Cardinality(held)
                /\ reported(detail[c], "Numeric values stored as text")
                       <= Cardinality(Present(df.data[c])) - Cardinality(held)

\* a column holding "$1,234.56" and "100" has been analysed: one numeric value
C5_Witness ==
    /\ Len(detail) = 1
    /\ \E i \in 1..df.rows : df.data[1][i] = Dollars
    /\ \E i \in 1..df.rows : df.data[1][i] = Text(<<"1", "0", "0">>)
    /\ reported(detail[1], "Numeric values stored as text") = 1

\* the string without its leading and trailing whitespace
Trimmed(s) ==
    LET inner == {i \in 1..Len(s) : s[i] \notin Whitespace}
    IN  IF inner = {} THEN <<>>
        ELSE SubSeq(s, CHOOSE i \in inner : \A j \in inner : i <= j,
                       CHOOSE i \in inner : \A j \in inner : i >= j)

\* the positions of the non-missing cells whose string form is not trimmed
Padded(column) == {i \in Present(column) : Trimmed(column[i].s) /= column[i].s}

\* C6: for a text column with a value, the leading/trailing-whitespace count is
\* the number of non-missing cells (with multiplicity) whose string form
\* differs from its trimmed form, and the line is printed only when that
\* number is not zero.
C6_Whitespace ==
    \A c \in 1..Len(detail) :
        TextColumn(df.data[c]) =>
            /\ Len(tagged(detail[c], "Values with leading/trailing spaces"))
                   = (IF Padded(df.data[c]) = {} THEN 0 ELSE 1)
            /\ reported(detail[c], "Values with leading/trailing spaces")
                   = Cardinality(Padded(df.data[c]))

\* the column " 5", "5" has been analysed with a count of 1
C6_Witness ==
    /\ Len(detail) = 1
    /\ df.data[1] = <<Text(<<" ", "5">>), Text(<<"5">>)>>
    /\ reported(detail[1], "Values with leading/trailing spaces") = 1

\* the distinct non-missing values of a column
Distinct(column) == {column[i] : i \in Present(column)}

\* the position of the first appearance of a value in a column
First(column, v) ==
    CHOOSE i \in 1..Len(column) : column[i] = v /\ \A j \in 1..(i - 1) : column[j] /= v

\* the runtime type of a value taken out of a column: the cell's own type in a
\* column that holds text, the column's numeric type otherwise
RuntimeType(column, v) ==
    IF \E i \in 1..Len(column) : column[i].t = "str" THEN v.t
    ELSE IF Present(column) /= 1..Len(column) THEN "float64"
    ELSE "int64"

\* the value as printed: an integer of a float column prints with ".0"
Shown(column, v) ==
    IF RuntimeType(column, v) = "float64" THEN v.s \o <<".", "0">> ELSE v.s

PatternOrder ==
    <<"Date-like", "Number with commas", "Number in quotes",
      "Currency", "Percentage", "Special chars">>

\* the positions of the non-missing cells whose string form matches the pattern
Hits(column, pattern_name) ==
    {i \in Present(column) : str_contains(pattern_name, column[i].s)}

\* the j-th position of a set of positions
Nth(positions, j) ==
    CHOOSE i \in positions : Cardinality({h \in positions : h < i}) = j - 1

\* C10: for a text column with a value, the pattern lines come in the order
\* Date-like, Number with commas, Number in quotes, Currency, Percentage,
\* Special chars; a pattern has a line exactly when a non-missing cell matches
\* it, the line gives the number of matching cells and is followed by
\* min(3, count) examples, the first matching cells in row order; there is no
\* other example line.
C10_Patterns ==
    \A c \in 1..Len(detail) :
        LET column == df.data[c]
            block == detail[c]
            contains == {p \in 1..Len(block) : block[p][1] = "Contains"}
            example == {p \in 1..Len(block) : block[p][1] = "Example"}
            rank(p) == CHOOSE k \in 1..Len(PatternOrder) : PatternOrder[k] = block[p][2]
        IN  TextColumn(column) =>
                /\ \A p \in contains : \E k \in 1..Len(PatternOrder) : PatternOrder[k] = block[p][2]
                /\ \A p \in contains, q \in contains : p < q => rank(p) < rank(q)
                /\ \A k \in 1..Len(PatternOrder) :
                       LET hits == Hits(column, PatternOrder[k])
                           n == Cardinality(hits)
                           at == {p \in contains : block[p][2] = PatternOrder[k]}
                       IN  IF n = 0 THEN at = {}
                           ELSE \E p \in at :
                                   /\ at = {p}
                                   /\ block[p][3] = n
                                   /\ \A j \in 1..Min(3, n) :
                                          /\ p + j \in example
                                          /\ block[p + j][2] = column[Nth(hits, j)].s
                                   /\ p + Min(3, n) + 1 \notin example
                /\ \A q \in example : \E p \in contains : p < q /\ q <= p + 3

\* a column of four cells matching one pattern has been analysed
C10_Witness ==
    \E c \in 1..Len(detail) :
        \E p \in 1..Len(detail[c]) :
            /\ detail[c][p][1] = "Contains"
            /\ detail[c][p][3] = 4
            /\ Cardinality(Distinct(df.data[c])) = 4

=============================================================================
